---- MODULE Spec2Model ----
(***************************************************************************)
(* Model of gns3/pages/server_preferences_page.py: the server preferences  *)
(* page (ServerPreferencesPage).  The page edits a candidate mapping of    *)
(* remote servers (self._remote_servers) mirrored by a tree widget, and a  *)
(* set of widgets bound to the local server settings; loadPreferences      *)
(* copies the Servers singleton into the page and savePreferences          *)
(* validates the widgets and writes them back.                             *)
(*                                                                         *)
(* Texts of line edits are sequences of characters, so that strip() and    *)
(* the hostname pattern are computed.  The combo box holds upper-case      *)
(* protocol names and the records lower-case ones (lower()/upper()).       *)
(***************************************************************************)
EXTENDS Integers, Sequences, FiniteSets, TLC

(***************************************************************************)
(* Bounds of the model.                                                    *)
(***************************************************************************)
\* maximum of uiRemoteServerPortSpinBox (its range is 0..MaxPort; setValue clamps)
MaxPort == 1
\* number of identifiers uuid.uuid4() hands out in one run
MaxUuid == 1

\* settings.get("ssh_port", 22)
DefaultSSHPort == 22

(***************************************************************************)
(* Texts.                                                                  *)
(***************************************************************************)
Space == " "

\* the characters of the class [a-zA-Z0-9\.{}-] with the Unicode ranges
\* substituted for {} that occur in the texts of this model
HostClass == {"a", "b", ".", "-"}

RECURSIVE lstrip(_)
lstrip(s) == IF s # <<>> /\ Head(s) = Space THEN lstrip(Tail(s)) ELSE s

RECURSIVE rstrip(_)
rstrip(s) ==
    IF s # <<>> /\ s[Len(s)] = Space THEN rstrip(SubSeq(s, 1, Len(s) - 1)) ELSE s

\* str.strip()
strip(s) == rstrip(lstrip(s))

\* re.match(r"^[...]+$", host): one or more characters, all of the class
HostMatches(host) ==
    /\ Len(host) >= 1
    /\ \A i \in 1..Len(host) : host[i] \in HostClass

Digit == <<"0", "1", "2", "3", "4", "5", "6", "7", "8", "9">>

\* str(port)
RECURSIVE Str(_)
Str(n) == IF n < 10 THEN <<Digit[n + 1]>> ELSE Str(n \div 10) \o <<Digit[(n % 10) + 1]>>

\* int(text): the value of a decimal text
RECURSIVE ParseInt(_)
ParseInt(t) ==
    IF Len(t) = 1 THEN (CHOOSE d \in 1..10 : Digit[d] = t[1]) - 1
    ELSE 10 * ParseInt(SubSeq(t, 1, Len(t) - 1))
         + (CHOOSE d \in 1..10 : Digit[d] = t[Len(t)]) - 1

\* the items of uiRemoteServerProtocolComboBox
ProtocolItems == {"HTTP", "SSH"}

\* str.lower() on the combo box texts
lower(text) ==
    CASE text = "HTTP" -> "http"
      [] text = "SSH" -> "ssh"
      [] OTHER -> text

\* str.upper() on the protocol of a stored record
upper(text) ==
    CASE text = "http" -> "HTTP"
      [] text = "ssh" -> "SSH"
      [] OTHER -> text

\* uiRemoteServerProtocolComboBox.findText(protocol) followed by
\* setCurrentIndex: the item when there is one, no current item (-1) otherwise
FindText(protocol) == IF protocol \in ProtocolItems THEN protocol ELSE ""

\* QSpinBox.setValue on uiRemoteServerPortSpinBox: clamped to the range
SpinValue(v) == IF v > MaxPort THEN MaxPort ELSE IF v < 0 THEN 0 ELSE v

(***************************************************************************)
(* What the user can type or pick.                                         *)
(***************************************************************************)
HostTexts == {<<>>, <<Space, "a">>}
UserTexts == {<<>>, <<"u">>}
KeyTexts == {<<>>, <<"k">>}
Ports == 0..MaxPort

\* the addresses of QNetworkInterface.allAddresses()
Addresses == {"127.0.0.1", "10.0.0.1"}
\* the paths the user types or the service holds: no file, an executable
\* file, a file that is not executable
LocalPaths == {"/opt/gns3server", "/bin/gns3server", "/etc/motd"}
\* os.path.isfile and os.access(path, os.X_OK) on the paths above
Files == {"/bin/gns3server", "/etc/motd"}
Executables == {"/bin/gns3server"}
isfile(path) == path \in Files
access(path) == path \in Executables
\* the port ranges the user sets, as <<start, end>>
ConsoleRanges == {<<2000, 2001>>, <<2001, 2001>>}
UDPRanges == {<<2000, 2001>>, <<2001, 2000>>}


(***************************************************************************)
(* State.                                                                  *)
(***************************************************************************)
VARIABLES
    \* the remote server form
    uiRemoteServerProtocolComboBox,   \* currentText()
    uiRemoteServerPortLineEdit,       \* text(): the host, in spite of its name
    uiRemoteServerPortSpinBox,        \* value()
    uiRemoteServerUserLineEdit,       \* text()
    uiRemoteServerSSHPortSpinBox,     \* value()
    uiRemoteServerSSHKeyLineEdit,     \* text()
    \* the candidate set and its display list
    remote_servers,                   \* self._remote_servers: id -> settings
    uiRemoteServersTreeWidget,        \* the top-level items, in order
    currentItem,                      \* index of currentItem(), 0 when none
    uuidCount,                        \* identifiers handed out by uuid.uuid4()
    \* the local server form
    uiLocalServerPathLineEdit,
    uiLocalServerHostComboBox,        \* itemData(currentIndex())
    uiLocalServerPortSpinBox,
    uiLocalServerAutoStartCheckBox,
    uiConsoleConnectionsToAnyIPCheckBox,
    uiConsoleStartPortSpinBox,
    uiConsoleEndPortSpinBox,
    uiUDPStartPortSpinBox,
    uiUDPEndPortSpinBox,
    \* Servers.instance()
    localServerSettings,              \* servers.localServerSettings()
    remoteServers,                    \* servers.remoteServers(): id -> settings
    \* Topology.instance().nodes()
    topologyNodes,
    \* what the handler that ran last showed (the dialogs, by the name of the
    \* error) and which calls it made on the collaborators, in order
    log,
    \* "Idle", or "AwaitingConnection" inside dialog.exec_()
    pc

remoteForm ==
    <<uiRemoteServerProtocolComboBox, uiRemoteServerPortLineEdit,
      uiRemoteServerPortSpinBox, uiRemoteServerUserLineEdit,
      uiRemoteServerSSHPortSpinBox, uiRemoteServerSSHKeyLineEdit>>

candidates == <<remote_servers, uiRemoteServersTreeWidget, currentItem, uuidCount>>

localForm ==
    <<uiLocalServerPathLineEdit, uiLocalServerHostComboBox, uiLocalServerPortSpinBox,
      uiLocalServerAutoStartCheckBox, uiConsoleConnectionsToAnyIPCheckBox,
      uiConsoleStartPortSpinBox, uiConsoleEndPortSpinBox,
      uiUDPStartPortSpinBox, uiUDPEndPortSpinBox>>

service == <<localServerSettings, remoteServers>>

vars == <<remoteForm, candidates, localForm, service, topologyNodes, log, pc>>

(***************************************************************************)
(* Remote server records and tree items.                                   *)
(***************************************************************************)
\* the settings dictionary built by _remoteServerAddSlot
RemoteSettings(protocol, host, port, user, ssh_port, ssh_key) ==
    [protocol |-> protocol, host |-> host, port |-> port, user |-> user,
     ssh_port |-> ssh_port, ssh_key |-> ssh_key]

\* a QTreeWidgetItem with its four columns, item.settings and item.server_id
TreeItem(server_id, settings) ==
    [text |-> <<settings.protocol, settings.host, Str(settings.port), settings.user>>,
     settings |-> settings,
     server_id |-> server_id]

\* the (protocol, host, port, user) of a record
ServerKey(server) == <<server.protocol, server.host, server.port, server.user>>

\* AlreadyDefined with the port compared after the increment of line 226
AlreadyDefinedAfterIncrement(servers, protocol, host, port, user) ==
    \E id \in DOMAIN servers :
        /\ servers[id].protocol = protocol
        /\ servers[id].host = host
        /\ servers[id].port = port + 1
        /\ servers[id].user = user

\* "check if the remote server is already defined"
AlreadyDefined(servers, protocol, host, port, user) ==
    \E id \in DOMAIN servers :
        /\ servers[id].protocol = protocol
        /\ servers[id].host = host
        /\ servers[id].port = port
        /\ servers[id].user = user

\* AddError with the user required whatever the protocol
AddErrorUserRequired(servers, protocol, host, port, user, ssh_key) ==
    IF ~HostMatches(host) THEN "InvalidHost"
    ELSE IF port < 1 THEN "InvalidPort"
    ELSE IF Len(user) = 0 THEN "MissingCredential"
    ELSE IF protocol = "ssh" /\ Len(ssh_key) = 0 THEN "MissingCredential"
    ELSE IF AlreadyDefined(servers, protocol, host, port, user) THEN "DuplicateServer"
    ELSE "none"

\* AddError without the check of the SSH key
AddErrorNoKeyCheck(servers, protocol, host, port, user, ssh_key) ==
    IF ~HostMatches(host) THEN "InvalidHost"
    ELSE IF port < 1 THEN "InvalidPort"
    ELSE IF protocol = "ssh" /\ Len(user) = 0 THEN "MissingCredential"
    ELSE IF AlreadyDefined(servers, protocol, host, port, user) THEN "DuplicateServer"
    ELSE "none"

\* the checks of _remoteServerAddSlot in order: the first that fails, or "none"
AddError(servers, protocol, host, port, user, ssh_key) ==
    IF ~HostMatches(host) THEN "InvalidHost"
    ELSE IF port < 1 THEN "InvalidPort"
    ELSE IF protocol = "ssh" /\ Len(user) = 0 THEN "MissingCredential"
    ELSE IF protocol = "ssh" /\ Len(ssh_key) = 0 THEN "MissingCredential"
    ELSE IF AlreadyDefined(servers, protocol, host, port, user) THEN "DuplicateServer"
    ELSE "none"

\* uuid.uuid4(): an identifier never handed out before and unknown to the service
\* the identifiers of the servers the service holds when the page is built
ServiceIds == {0, 1}

\* uuid.uuid4(): an identifier never handed out before and unknown to the service
uuid4 == Cardinality(ServiceIds) + uuidCount


(***************************************************************************)
(* The remote server form.                                                 *)
(***************************************************************************)

\* _remoteServerProtocolCurrentIndexSlot, as run by a setCurrentIndex that
\* changes the current item: the user text after the slot
UserAfterProtocol(text, user) == IF text = "SSH" THEN <<>> ELSE user

\* the user picks another protocol in the combo box
remoteServerProtocolCurrentIndexSlot(text) ==
    /\ pc = "Idle"
    /\ text # uiRemoteServerProtocolComboBox
    /\ uiRemoteServerProtocolComboBox' = text
    /\ uiRemoteServerUserLineEdit' = UserAfterProtocol(text, uiRemoteServerUserLineEdit)
    /\ log' = <<>>
    /\ UNCHANGED <<uiRemoteServerPortLineEdit, uiRemoteServerPortSpinBox,
                   uiRemoteServerSSHPortSpinBox, uiRemoteServerSSHKeyLineEdit,
                   candidates, localForm, service, topologyNodes, pc>>

\* the user types a host
EditRemoteHost(text) ==
    /\ pc = "Idle"
    /\ uiRemoteServerPortLineEdit' = text
    /\ log' = <<>>
    /\ UNCHANGED <<uiRemoteServerProtocolComboBox, uiRemoteServerPortSpinBox,
                   uiRemoteServerUserLineEdit, uiRemoteServerSSHPortSpinBox,
                   uiRemoteServerSSHKeyLineEdit,
                   candidates, localForm, service, topologyNodes, pc>>

\* the user sets the port
EditRemotePort(port) ==
    /\ pc = "Idle"
    /\ uiRemoteServerPortSpinBox' = port
    /\ log' = <<>>
    /\ UNCHANGED <<uiRemoteServerProtocolComboBox, uiRemoteServerPortLineEdit,
                   uiRemoteServerUserLineEdit, uiRemoteServerSSHPortSpinBox,
                   uiRemoteServerSSHKeyLineEdit,
                   candidates, localForm, service, topologyNodes, pc>>

\* the user types a login; the field is shown for SSH only (lines 88-104)
EditRemoteUser(text) ==
    /\ pc = "Idle"
    /\ uiRemoteServerProtocolComboBox = "SSH"
    /\ uiRemoteServerUserLineEdit' = text
    /\ log' = <<>>
    /\ UNCHANGED <<uiRemoteServerProtocolComboBox, uiRemoteServerPortLineEdit,
                   uiRemoteServerPortSpinBox, uiRemoteServerSSHPortSpinBox,
                   uiRemoteServerSSHKeyLineEdit,
                   candidates, localForm, service, topologyNodes, pc>>

\* _remoteServerSSHKeyPushButtonSlot, or typing the key; shown for SSH only
remoteServerSSHKeyPushButtonSlot(path) ==
    /\ pc = "Idle"
    /\ uiRemoteServerProtocolComboBox = "SSH"
    /\ uiRemoteServerSSHKeyLineEdit' = path
    /\ log' = <<>>
    /\ UNCHANGED <<uiRemoteServerProtocolComboBox, uiRemoteServerPortLineEdit,
                   uiRemoteServerPortSpinBox, uiRemoteServerUserLineEdit,
                   uiRemoteServerSSHPortSpinBox,
                   candidates, localForm, service, topologyNodes, pc>>

\* _remoteServerClickedSlot on row i: the row becomes the current item and
\* the form is filled from its settings
remoteServerClickedSlot(i) ==
    LET settings == uiRemoteServersTreeWidget[i].settings
        text == FindText(upper(settings.protocol))
    IN  /\ pc = "Idle"
        /\ currentItem' = i
        /\ uiRemoteServerProtocolComboBox' = text
        /\ uiRemoteServerPortLineEdit' = settings.host
        /\ uiRemoteServerPortSpinBox' = SpinValue(settings.port)
        /\ uiRemoteServerUserLineEdit' = settings.user
        /\ uiRemoteServerSSHKeyLineEdit' = settings.ssh_key
        /\ uiRemoteServerSSHPortSpinBox' = settings.ssh_port
        /\ log' = <<>>
        /\ UNCHANGED <<remote_servers, uiRemoteServersTreeWidget, uuidCount,
                       localForm, service, topologyNodes, pc>>

\* AddOutcome with the port field incremented before the checks
AddOutcomeIncrementFirst(servers, items, form, server_id) ==
    LET protocol == lower(form.protocol)
        host == strip(form.host)
        port == form.port
        user == strip(form.user)
        ssh_key == strip(form.ssh_key)
        error == AddError(servers, protocol, host, port, user, ssh_key)
        settings == RemoteSettings(protocol, host, port, user, form.ssh_port, ssh_key)
    IN  IF error # "none"
        THEN [log |-> <<error>>, servers |-> servers, items |-> items,
              port |-> SpinValue(form.port + 1), added |-> FALSE]
        ELSE [log |-> <<>>,
              servers |-> [id \in DOMAIN servers \cup {server_id} |->
                              IF id = server_id THEN settings ELSE servers[id]],
              items |-> Append(items, TreeItem(server_id, settings)),
              port |-> SpinValue(form.port + 1),
              added |-> TRUE]

\* _remoteServerAddSlot on the candidate set servers and the rows items, with
\* the form as given and server_id the identifier uuid4() returns: what is
\* shown, and the candidate set, the rows and the port field afterwards
AddOutcome(servers, items, form, server_id) ==
    LET protocol == lower(form.protocol)
        host == strip(form.host)
        port == form.port
        user == strip(form.user)
        ssh_port == form.ssh_port
        ssh_key == strip(form.ssh_key)
        error == AddError(servers, protocol, host, port, user, ssh_key)
        settings == RemoteSettings(protocol, host, port, user, ssh_port, ssh_key)
    IN  IF error # "none"
        THEN [log |-> <<error>>, servers |-> servers, items |-> items,
              port |-> form.port, added |-> FALSE]
        ELSE [log |-> <<>>,
              servers |-> [id \in DOMAIN servers \cup {server_id} |->
                              IF id = server_id THEN settings ELSE servers[id]],
              items |-> Append(items, TreeItem(server_id, settings)),
              port |-> SpinValue(form.port + 1),
              added |-> TRUE]

\* the values of the remote server form
RemoteForm ==
    [protocol |-> uiRemoteServerProtocolComboBox,
     host |-> uiRemoteServerPortLineEdit,
     port |-> uiRemoteServerPortSpinBox,
     user |-> uiRemoteServerUserLineEdit,
     ssh_port |-> uiRemoteServerSSHPortSpinBox,
     ssh_key |-> uiRemoteServerSSHKeyLineEdit]

\* the user presses the add button
remoteServerAddSlot ==
    LET out == AddOutcome(remote_servers, uiRemoteServersTreeWidget, RemoteForm, uuid4)
    IN  /\ pc = "Idle"
        /\ out.added => uuidCount < MaxUuid
        /\ remote_servers' = out.servers
        /\ uiRemoteServersTreeWidget' = out.items
        /\ uiRemoteServerPortSpinBox' = out.port
        /\ uuidCount' = IF out.added THEN uuidCount + 1 ELSE uuidCount
        /\ log' = out.log
        /\ UNCHANGED <<uiRemoteServerProtocolComboBox, uiRemoteServerPortLineEdit,
                       uiRemoteServerUserLineEdit, uiRemoteServerSSHPortSpinBox,
                       uiRemoteServerSSHKeyLineEdit, currentItem,
                       localForm, service, topologyNodes, pc>>

\* RemoveAt taking the last row whichever row is given
RemoveAtLast(s, i) == SubSeq(s, 1, Len(s) - 1)

\* the sequence s without its i-th element (takeTopLevelItem)
RemoveAt(s, i) == SubSeq(s, 1, i - 1) \o SubSeq(s, i + 1, Len(s))

\* remoteServerDeleteSlot emptying the candidate set and the display list
remoteServerDeleteSlotClear ==
    /\ pc = "Idle"
    /\ IF currentItem = 0
       THEN /\ log' = <<>>
            /\ UNCHANGED candidates
       ELSE /\ remote_servers' = <<>>
            /\ uiRemoteServersTreeWidget' = <<>>
            /\ currentItem' = 0
            /\ log' = <<>>
            /\ UNCHANGED uuidCount
    /\ UNCHANGED <<remoteForm, localForm, service, topologyNodes, pc>>

\* _remoteServerDeleteSlot
remoteServerDeleteSlot ==
    /\ pc = "Idle"
    /\ IF currentItem = 0
       THEN /\ log' = <<>>
            /\ UNCHANGED candidates
       ELSE LET item == uiRemoteServersTreeWidget[currentItem]
                port == ParseInt(item.text[3])
            IN  IF item.server_id \notin DOMAIN remote_servers
                THEN /\ log' = <<"AssertionError">>
                     /\ UNCHANGED candidates
                ELSE /\ remote_servers' =
                            [id \in DOMAIN remote_servers \ {item.server_id} |->
                                remote_servers[id]]
                     /\ uiRemoteServersTreeWidget' =
                            RemoveAt(uiRemoteServersTreeWidget, currentItem)
                     \* the view moves the current item to a remaining row, if any
                     /\ currentItem' \in 0..(Len(uiRemoteServersTreeWidget) - 1)
                     /\ log' = <<>>
                     /\ UNCHANGED uuidCount
    /\ UNCHANGED <<remoteForm, localForm, service, topologyNodes, pc>>


(***************************************************************************)
(* The local server form.                                                  *)
(***************************************************************************)
\* the user types or browses a path (_localServerBrowserSlot)
localServerBrowserSlot(path) ==
    /\ pc = "Idle"
    /\ uiLocalServerPathLineEdit' = path
    /\ log' = <<>>
    /\ UNCHANGED <<uiLocalServerHostComboBox, uiLocalServerPortSpinBox,
                   uiLocalServerAutoStartCheckBox, uiConsoleConnectionsToAnyIPCheckBox,
                   uiConsoleStartPortSpinBox, uiConsoleEndPortSpinBox,
                   uiUDPStartPortSpinBox, uiUDPEndPortSpinBox,
                   remoteForm, candidates, service, topologyNodes, pc>>

\* the user picks one of the addresses of the host combo box
EditLocalHost(address) ==
    /\ pc = "Idle"
    /\ uiLocalServerHostComboBox' = address
    /\ log' = <<>>
    /\ UNCHANGED <<uiLocalServerPathLineEdit, uiLocalServerPortSpinBox,
                   uiLocalServerAutoStartCheckBox, uiConsoleConnectionsToAnyIPCheckBox,
                   uiConsoleStartPortSpinBox, uiConsoleEndPortSpinBox,
                   uiUDPStartPortSpinBox, uiUDPEndPortSpinBox,
                   remoteForm, candidates, service, topologyNodes, pc>>

\* the user toggles the auto start check box (_useLocalServerAutoStartSlot
\* only enables or disables the group boxes)
useLocalServerAutoStartSlot ==
    /\ pc = "Idle"
    /\ uiLocalServerAutoStartCheckBox' = ~uiLocalServerAutoStartCheckBox
    /\ log' = <<>>
    /\ UNCHANGED <<uiLocalServerPathLineEdit, uiLocalServerHostComboBox,
                   uiLocalServerPortSpinBox, uiConsoleConnectionsToAnyIPCheckBox,
                   uiConsoleStartPortSpinBox, uiConsoleEndPortSpinBox,
                   uiUDPStartPortSpinBox, uiUDPEndPortSpinBox,
                   remoteForm, candidates, service, topologyNodes, pc>>

\* the user sets the console port range
EditConsoleRange(start, end) ==
    /\ pc = "Idle"
    /\ uiConsoleStartPortSpinBox' = start
    /\ uiConsoleEndPortSpinBox' = end
    /\ log' = <<>>
    /\ UNCHANGED <<uiLocalServerPathLineEdit, uiLocalServerHostComboBox,
                   uiLocalServerPortSpinBox, uiLocalServerAutoStartCheckBox,
                   uiConsoleConnectionsToAnyIPCheckBox,
                   uiUDPStartPortSpinBox, uiUDPEndPortSpinBox,
                   remoteForm, candidates, service, topologyNodes, pc>>

\* the user sets the UDP port range
EditUDPRange(start, end) ==
    /\ pc = "Idle"
    /\ uiUDPStartPortSpinBox' = start
    /\ uiUDPEndPortSpinBox' = end
    /\ log' = <<>>
    /\ UNCHANGED <<uiLocalServerPathLineEdit, uiLocalServerHostComboBox,
                   uiLocalServerPortSpinBox, uiLocalServerAutoStartCheckBox,
                   uiConsoleConnectionsToAnyIPCheckBox,
                   uiConsoleStartPortSpinBox, uiConsoleEndPortSpinBox,
                   remoteForm, candidates, service, topologyNodes, pc>>

(***************************************************************************)
(* loadPreferences.                                                        *)
(***************************************************************************)
\* the keys of a mapping in ascending order: the order of
\* servers.remoteServers().items(), identifiers being handed out in
\* ascending order
RECURSIVE Ordered(_)
Ordered(ids) ==
    IF ids = {} THEN <<>>
    ELSE LET least == CHOOSE id \in ids : \A other \in ids : id <= other
         IN  <<least>> \o Ordered(ids \ {least})

\* uiLocalServerHostComboBox after findData(host) and setCurrentIndex: left
\* alone when the host is none of the addresses (index -1)
HostAfterFindData(host, current) == IF host \in Addresses THEN host ELSE current

\* loadPreferences without the clear() of lines 275-276
loadPreferencesNoClear ==
    LET settings == localServerSettings
        servers == remoteServers
        order == Ordered(DOMAIN servers)
    IN  /\ pc = "Idle"
        /\ uiLocalServerPathLineEdit' = settings.path
        /\ uiLocalServerHostComboBox' = HostAfterFindData(settings.host, uiLocalServerHostComboBox)
        /\ uiLocalServerPortSpinBox' = settings.port
        /\ uiLocalServerAutoStartCheckBox' = settings.auto_start
        /\ uiConsoleConnectionsToAnyIPCheckBox' = settings.allow_console_from_anywhere
        /\ uiConsoleStartPortSpinBox' = settings.console_start_port_range
        /\ uiConsoleEndPortSpinBox' = settings.console_end_port_range
        /\ uiUDPStartPortSpinBox' = settings.udp_start_port_range
        /\ uiUDPEndPortSpinBox' = settings.udp_end_port_range
        /\ remote_servers' = [id \in DOMAIN remote_servers \cup DOMAIN servers |->
                                 IF id \in DOMAIN servers THEN servers[id]
                                 ELSE remote_servers[id]]
        /\ uiRemoteServersTreeWidget' =
               uiRemoteServersTreeWidget
                   \o [i \in 1..Len(order) |-> TreeItem(order[i], servers[order[i]])]
        /\ currentItem' = currentItem
        /\ log' = <<>>
        /\ UNCHANGED <<remoteForm, uuidCount, service, topologyNodes, pc>>

\* loadPreferences
loadPreferences ==
    LET settings == localServerSettings
        servers == remoteServers
        order == Ordered(DOMAIN servers)
    IN  /\ pc = "Idle"
        \* _populateWidgets(local_server_settings)
        /\ uiLocalServerPathLineEdit' = settings.path
        /\ uiLocalServerHostComboBox' = HostAfterFindData(settings.host, uiLocalServerHostComboBox)
        /\ uiLocalServerPortSpinBox' = settings.port
        /\ uiLocalServerAutoStartCheckBox' = settings.auto_start
        /\ uiConsoleConnectionsToAnyIPCheckBox' = settings.allow_console_from_anywhere
        /\ uiConsoleStartPortSpinBox' = settings.console_start_port_range
        /\ uiConsoleEndPortSpinBox' = settings.console_end_port_range
        /\ uiUDPStartPortSpinBox' = settings.udp_start_port_range
        /\ uiUDPEndPortSpinBox' = settings.udp_end_port_range
        \* the remote servers
        /\ remote_servers' = [id \in DOMAIN servers |-> servers[id]]
        /\ uiRemoteServersTreeWidget' =
               [i \in 1..Len(order) |-> TreeItem(order[i], servers[order[i]])]
        /\ currentItem' = 0
        /\ log' = <<>>
        /\ UNCHANGED <<remoteForm, uuidCount, service, topologyNodes, pc>>

(***************************************************************************)
(* savePreferences.                                                        *)
(***************************************************************************)
\* new_settings: the widgets, and the fields the form does not show copied
\* from the current settings
NewSettings(current) ==
    [path |-> uiLocalServerPathLineEdit,
     host |-> uiLocalServerHostComboBox,
     port |-> uiLocalServerPortSpinBox,
     auto_start |-> uiLocalServerAutoStartCheckBox,
     allow_console_from_anywhere |-> uiConsoleConnectionsToAnyIPCheckBox,
     console_start_port_range |-> uiConsoleStartPortSpinBox,
     console_end_port_range |-> uiConsoleEndPortSpinBox,
     udp_start_port_range |-> uiUDPStartPortSpinBox,
     udp_end_port_range |-> uiUDPEndPortSpinBox,
     images_path |-> current.images_path,
     projects_path |-> current.projects_path,
     report_errors |-> current.report_errors]

\* InvalidConsoleRange with < for <=
InvalidConsoleRangeStrict(new) == new.console_end_port_range < new.console_start_port_range

\* the two range checks
InvalidConsoleRange(new) == new.console_end_port_range <= new.console_start_port_range

InvalidUDPRange(new) == new.udp_end_port_range <= new.udp_start_port_range

\* local_nodes: the names of the nodes whose server is the local one
LocalNodeNames(nodes) ==
    LET IsLocal(node) == node.isLocal
        local == SelectSeq(nodes, IsLocal)
    IN  [i \in 1..Len(local) |-> local[i].name]

\* WriteCalls with servers.save() called first
WriteCallsSaveFirst == <<"save", "setLocalServerSettings", "updateRemoteServers">>

\* "save the local server preferences", "save the remote server preferences"
\* and servers.save() (lines 350-354)
WriteCalls == <<"setLocalServerSettings", "updateRemoteServers", "save">>

\* RestartCalls with the connection wait begun whatever startLocalServer returns
RestartCallsAlwaysWait(started) ==
    <<"stopLocalServer", "startLocalServer", IF started THEN "started" ELSE "notStarted",
      "WaitForConnectionWorker">>

\* "restart the local server if required" (lines 357-365): stopLocalServer(wait=True),
\* startLocalServer() and what it returned, then the connection wait or the
\* StartFailed dialog
RestartCalls(started) ==
    <<"stopLocalServer", "startLocalServer", IF started THEN "started" ELSE "notStarted">>
        \o (IF started THEN <<"WaitForConnectionWorker">> ELSE <<"StartFailed">>)

\* TopologyChecked with the restart decided whether or not the settings changed
TopologyCheckedRestartAlways(new, current, nodes, started) ==
    IF LocalNodeNames(nodes) # <<>>
    THEN <<"ServerInUse">>
    ELSE WriteCalls \o RestartCalls(started)

\* TopologyChecked without the return after the ServerInUse message
TopologyCheckedNoReturn(new, current, nodes, started) ==
    IF new # current
    THEN IF LocalNodeNames(nodes) # <<>>
         THEN <<"ServerInUse">> \o WriteCalls \o RestartCalls(started)
         ELSE WriteCalls \o RestartCalls(started)
    ELSE WriteCalls

\* TopologyChecked with the restart made before the writes
TopologyCheckedRestartFirst(new, current, nodes, started) ==
    IF new # current
    THEN IF LocalNodeNames(nodes) # <<>>
         THEN <<"ServerInUse">>
         ELSE RestartCalls(started) \o WriteCalls
    ELSE WriteCalls

\* lines 334-346 and what follows them: the check of the topology when the
\* settings changed, then the writes and the restart
TopologyChecked(new, current, nodes, started) ==
    IF new # current
    THEN IF LocalNodeNames(nodes) # <<>>
         THEN <<"ServerInUse">>
         ELSE WriteCalls \o RestartCalls(started)
    ELSE WriteCalls

\* PathChecked without the return after the ServerPathNotFound message
PathCheckedNoReturn(new, current, nodes, started) ==
    (IF ~isfile(new.path) THEN <<"ServerPathNotFound">> ELSE <<>>)
        \o (IF ~access(new.path) THEN <<"ServerNotExecutable">> ELSE <<>>)
        \o TopologyChecked(new, current, nodes, started)

\* PathChecked with a return after the ServerNotExecutable message
PathCheckedAbort(new, current, nodes, started) ==
    IF ~isfile(new.path) THEN <<"ServerPathNotFound">>
    ELSE IF ~access(new.path) THEN <<"ServerNotExecutable">>
    ELSE TopologyChecked(new, current, nodes, started)

\* lines 328-332 and what follows them: the path must be a file (else return);
\* a file that is not executable is reported, and the handler goes on
PathChecked(new, current, nodes, started) ==
    IF ~isfile(new.path) THEN <<"ServerPathNotFound">>
    ELSE (IF ~access(new.path) THEN <<"ServerNotExecutable">> ELSE <<>>)
             \o TopologyChecked(new, current, nodes, started)

\* AutoStartOff with the stop made after the writes
AutoStartOffStopLast == WriteCalls \o <<"stopLocalServer">>

\* lines 347-354 when auto_start is off: stopLocalServer(wait=True), then the writes
AutoStartOff == <<"stopLocalServer">> \o WriteCalls

\* SaveEvents with the writes made before the UDP range is checked
SaveEventsWriteBeforeUDPCheck(new, current, nodes, started) ==
    IF InvalidConsoleRange(new) THEN <<"InvalidRange">>
    ELSE IF InvalidUDPRange(new) THEN WriteCalls \o <<"InvalidRange">>
    ELSE IF new.auto_start THEN PathChecked(new, current, nodes, started)
    ELSE AutoStartOff

\* SaveEvents with the path checked whether or not auto_start is set
SaveEventsPathAlways(new, current, nodes, started) ==
    IF InvalidConsoleRange(new) THEN <<"InvalidRange">>
    ELSE IF InvalidUDPRange(new) THEN <<"InvalidRange">>
    ELSE IF ~isfile(new.path) THEN <<"ServerPathNotFound">>
    ELSE IF new.auto_start THEN PathChecked(new, current, nodes, started)
    ELSE AutoStartOff

\* what savePreferences shows and calls, in order; started is the value
\* servers.startLocalServer() returns
SaveEvents(new, current, nodes, started) ==
    IF InvalidConsoleRange(new) THEN <<"InvalidRange">>
    ELSE IF InvalidUDPRange(new) THEN <<"InvalidRange">>
    ELSE IF new.auto_start THEN PathChecked(new, current, nodes, started)
    ELSE AutoStartOff

\* Servers.setLocalServerSettings
setLocalServerSettings(svc, settings) == [svc EXCEPT !.local = settings]

\* Servers.updateRemoteServers: the collection is replaced by the one given
updateRemoteServers(svc, servers) == [svc EXCEPT !.remote = servers]

\* the service after the calls of events, made in order
RECURSIVE Perform(_, _, _, _)
Perform(svc, events, new, servers) ==
    IF events = <<>> THEN svc
    ELSE LET next ==
                 CASE Head(events) = "setLocalServerSettings" ->
                          setLocalServerSettings(svc, new)
                   [] Head(events) = "updateRemoteServers" ->
                          updateRemoteServers(svc, servers)
                   [] OTHER -> svc
         IN  Perform(next, Tail(events), new, servers)

\* savePreferences, up to its return or to dialog.exec_()
savePreferences ==
    \E started \in BOOLEAN :
        LET current == localServerSettings
            new == NewSettings(current)
            events == SaveEvents(new, current, topologyNodes, started)
            svc == Perform([local |-> localServerSettings, remote |-> remoteServers],
                           events, new, remote_servers)
        IN  /\ pc = "Idle"
            /\ localServerSettings' = svc.local
            /\ remoteServers' = svc.remote
            /\ log' = events
            /\ pc' = IF \E i \in 1..Len(events) : events[i] = "WaitForConnectionWorker"
                     THEN "AwaitingConnection" ELSE "Idle"
            /\ UNCHANGED <<remoteForm, candidates, localForm, topologyNodes>>

\* the modal progress dialog ends: the worker connected or failed, or the
\* user cancelled
WaitForConnectionDone(outcome) ==
    /\ pc = "AwaitingConnection"
    /\ pc' = "Idle"
    /\ log' = Append(log, outcome)
    /\ UNCHANGED <<remoteForm, candidates, localForm, service, topologyNodes>>

(***************************************************************************)
(* The page after construction.                                            *)
(***************************************************************************)
\* the settings the service can hold when the page is opened
StoredLocalSettings ==
    [path : LocalPaths,
     host : {"127.0.0.1", "0.0.0.0"},
     port : {8000},
     auto_start : BOOLEAN,
     allow_console_from_anywhere : {FALSE},
     console_start_port_range : {2000},
     console_end_port_range : {2001},
     udp_start_port_range : {2000},
     udp_end_port_range : {2001},
     images_path : {"images"},
     projects_path : {"projects"},
     report_errors : {TRUE}]

\* the remote servers the service can hold when the page is opened: none,
\* one, or two with different (protocol, host, port, user)
StoredRemoteServers ==
    LET http == RemoteSettings("http", <<"a">>, 1, <<>>, DefaultSSHPort, <<>>)
        ssh == RemoteSettings("ssh", <<"a">>, 1, <<"u">>, DefaultSSHPort, <<"k">>)
    IN  {<<>>, [id \in {0} |-> http], [id \in {0, 1} |-> IF id = 0 THEN http ELSE ssh]}

\* the open topology
Topologies ==
    {<<>>,
     <<[name |-> "R1", isLocal |-> TRUE], [name |-> "R2", isLocal |-> FALSE]>>}

Init ==
    /\ uiRemoteServerProtocolComboBox = "HTTP"
    /\ uiRemoteServerPortLineEdit = <<>>
    /\ uiRemoteServerPortSpinBox = 0
    /\ uiRemoteServerUserLineEdit = <<>>
    /\ uiRemoteServerSSHPortSpinBox = DefaultSSHPort
    /\ uiRemoteServerSSHKeyLineEdit = <<>>
    /\ remote_servers = <<>>
    /\ uiRemoteServersTreeWidget = <<>>
    /\ currentItem = 0
    /\ uuidCount = 0
    /\ uiLocalServerPathLineEdit = ""
    /\ uiLocalServerHostComboBox = "127.0.0.1"
    /\ uiLocalServerPortSpinBox = 8000
    /\ uiLocalServerAutoStartCheckBox = FALSE
    /\ uiConsoleConnectionsToAnyIPCheckBox = FALSE
    /\ uiConsoleStartPortSpinBox = 2000
    /\ uiConsoleEndPortSpinBox = 2001
    /\ uiUDPStartPortSpinBox = 2000
    /\ uiUDPEndPortSpinBox = 2001
    /\ localServerSettings \in StoredLocalSettings
    /\ remoteServers \in StoredRemoteServers
    /\ topologyNodes \in Topologies
    /\ log = <<>>
    /\ pc = "Idle"

(***************************************************************************)
(* The remote server panel: every edit of the remote server form, add,     *)
(* delete, select and load, over each collection the service can hold.     *)
(***************************************************************************)
InitRemote ==
    /\ Init
    /\ localServerSettings.path = "/bin/gns3server"
    /\ localServerSettings.host = "127.0.0.1"
    /\ localServerSettings.auto_start
    /\ topologyNodes = <<>>

NextRemote ==
    \/ \E text \in ProtocolItems : remoteServerProtocolCurrentIndexSlot(text)
    \/ \E text \in HostTexts : EditRemoteHost(text)
    \/ \E port \in Ports : EditRemotePort(port)
    \/ \E text \in UserTexts : EditRemoteUser(text)
    \/ \E path \in KeyTexts : remoteServerSSHKeyPushButtonSlot(path)
    \/ \E i \in 1..Len(uiRemoteServersTreeWidget) : remoteServerClickedSlot(i)
    \/ remoteServerAddSlot
    \/ remoteServerDeleteSlot
    \/ loadPreferences

SpecRemote == InitRemote /\ [][NextRemote]_vars

(***************************************************************************)
(* The whole page: the local server form, add, delete, select, load and    *)
(* save, over each local settings the service can hold and each topology.  *)
(* The remote server form is filled by selecting a row.                    *)
(***************************************************************************)
InitSave ==
    /\ Init
    /\ DOMAIN remoteServers = {0}

NextSave ==
    \/ \E i \in 1..Len(uiRemoteServersTreeWidget) : remoteServerClickedSlot(i)
    \/ remoteServerAddSlot
    \/ remoteServerDeleteSlot
    \/ \E path \in LocalPaths : localServerBrowserSlot(path)
    \/ \E address \in Addresses : EditLocalHost(address)
    \/ useLocalServerAutoStartSlot
    \/ \E range \in ConsoleRanges : EditConsoleRange(range[1], range[2])
    \/ \E range \in UDPRanges : EditUDPRange(range[1], range[2])
    \/ loadPreferences
    \/ savePreferences
    \/ \E outcome \in {"connected", "failed", "cancelled"} : WaitForConnectionDone(outcome)

SpecSave == InitSave /\ [][NextSave]_vars

\* the connection wait ends: the worker connects or fails, or the user
\* cancels the progress dialog
SpecSaveFair ==
    /\ SpecSave
    /\ WF_vars(\E outcome \in {"connected", "failed", "cancelled"} :
                   WaitForConnectionDone(outcome))

(***************************************************************************)
(* Properties.                                                             *)
(***************************************************************************)
\* event occurs in events
Occurs(event, events) == \E i \in 1..Len(events) : events[i] = event

\* event occurs in events, and before every occurrence of later
Before(event, later, events) ==
    \E i \in 1..Len(events) :
        /\ events[i] = event
        /\ \A j \in 1..Len(events) : events[j] = later => i < j

\* the (protocol, host, port, user) _remoteServerAddSlot reads from the form
FormKey ==
    <<lower(uiRemoteServerProtocolComboBox), strip(uiRemoteServerPortLineEdit),
      uiRemoteServerPortSpinBox, strip(uiRemoteServerUserLineEdit)>>

\* a record of the candidate set has the (protocol, host, port, user) of the form
FormKeyExists == \E id \in DOMAIN remote_servers : ServerKey(remote_servers[id]) = FormKey

\* the host, the port and the credentials of the form pass the checks of lines 186-199
FormValid ==
    /\ HostMatches(strip(uiRemoteServerPortLineEdit))
    /\ uiRemoteServerPortSpinBox >= 1
    /\ uiRemoteServerProtocolComboBox = "SSH" =>
           /\ strip(uiRemoteServerUserLineEdit) # <<>>
           /\ strip(uiRemoteServerSSHKeyLineEdit) # <<>>

\* no two records of the candidate set have the same (protocol, host, port, user)
UniqueServers ==
    \A id1, id2 \in DOMAIN remote_servers :
        id1 # id2 => ServerKey(remote_servers[id1]) # ServerKey(remote_servers[id2])

\* C1 as stated: the candidate set never holds two records with the same
\* (protocol, host, port, user), and every add whose (protocol, host, port,
\* user) is that of an existing record reports DuplicateServer.
C1_Original ==
    /\ []UniqueServers
    /\ [][remoteServerAddSlot /\ FormKeyExists => log' = <<"DuplicateServer">>]_vars

\* C1 (amended): the candidate set never holds two records with the same
\* (protocol, host, port, user); an add whose (protocol, host, port, user) is
\* that of an existing record fails and leaves the candidate set as it was,
\* reporting DuplicateServer when host, port and credentials pass their
\* checks (which come first) and the error of the failed check otherwise.
C1_UniqueServers ==
    /\ []UniqueServers
    /\ [][remoteServerAddSlot /\ FormKeyExists =>
            /\ remote_servers' = remote_servers
            /\ Len(log') = 1
            /\ FormValid => log' = <<"DuplicateServer">>
            /\ ~FormValid => log'[1] \in {"InvalidHost", "InvalidPort", "MissingCredential"}]_vars

\* an add was refused as a duplicate of one of two or more candidates
C1_Witness ==
    /\ log = <<"DuplicateServer">>
    /\ Cardinality(DOMAIN remote_servers) >= 2
    /\ FormKeyExists

\* the errors of addRemoteServer
AddErrors == {"InvalidHost", "InvalidPort", "MissingCredential", "DuplicateServer"}

\* C2: an add that fails (InvalidHost, InvalidPort, MissingCredential for an
\* empty user or an empty ssh_key, DuplicateServer) leaves the candidate set,
\* the display list and the port field as they were.
C2_FailedAddChangesNothing ==
    [][remoteServerAddSlot /\ Len(log') = 1 /\ log'[1] \in AddErrors =>
        /\ remote_servers' = remote_servers
        /\ uiRemoteServersTreeWidget' = uiRemoteServersTreeWidget
        /\ uiRemoteServerPortSpinBox' = uiRemoteServerPortSpinBox]_vars

\* an ssh add with a user and no key was refused while candidates exist
C2_Witness ==
    /\ log = <<"MissingCredential">>
    /\ uiRemoteServerProtocolComboBox = "SSH"
    /\ strip(uiRemoteServerUserLineEdit) # <<>>
    /\ strip(uiRemoteServerSSHKeyLineEdit) = <<>>
    /\ remote_servers # <<>>


\* the settings savePreferences builds from the form
FormSettings == NewSettings(localServerSettings)

\* both port ranges of the form have end > start
RangesValid ==
    /\ uiConsoleEndPortSpinBox > uiConsoleStartPortSpinBox
    /\ uiUDPEndPortSpinBox > uiUDPStartPortSpinBox

\* the path of the form is a file
PathIsFile == uiLocalServerPathLineEdit \in Files

\* a node of the open topology is bound to the local server
HasLocalNodes == \E i \in 1..Len(topologyNodes) : topologyNodes[i].isLocal

\* the form passes every check of savePreferences that returns early
SavePasses ==
    /\ RangesValid
    /\ uiLocalServerAutoStartCheckBox =>
           /\ PathIsFile
           /\ FormSettings # localServerSettings => ~HasLocalNodes

\* the calls that write to the service or act on the local server
ServiceCalls ==
    {"setLocalServerSettings", "updateRemoteServers", "save",
     "stopLocalServer", "startLocalServer", "WaitForConnectionWorker"}

\* the handler made none of the calls
NoCalls(events) == \A i \in 1..Len(events) : events[i] \notin ServiceCalls

\* C3: the local settings and the remote server collection of the service
\* change only in a savePreferences whose form passes every check; load, add,
\* delete, select and a save that ends in InvalidRange, ServerPathNotFound or
\* ServerInUse leave both as they were.
C3_ServiceUntouchedUntilSave ==
    [][(localServerSettings' # localServerSettings \/ remoteServers' # remoteServers) =>
        /\ savePreferences
        /\ SavePasses
        /\ Occurs("setLocalServerSettings", log')
        /\ Occurs("updateRemoteServers", log')
        /\ ~Occurs("InvalidRange", log')
        /\ ~Occurs("ServerPathNotFound", log')
        /\ ~Occurs("ServerInUse", log')]_vars

\* a save was blocked while the candidate set and the form both differ from
\* what the service holds
C3_Witness ==
    /\ log = <<"ServerInUse">>
    /\ remote_servers # remoteServers
    /\ FormSettings # localServerSettings

\* C4: a save with console end <= console start, or with UDP end <= UDP
\* start, shows InvalidRange and does nothing else: no call on the service,
\* no stop, no start, the service as it was.
C4_InvalidRangeNoWrites ==
    [][(/\ savePreferences
        /\ \/ uiConsoleEndPortSpinBox <= uiConsoleStartPortSpinBox
           \/ uiUDPEndPortSpinBox <= uiUDPStartPortSpinBox) =>
        /\ log' = <<"InvalidRange">>
        /\ localServerSettings' = localServerSettings
        /\ remoteServers' = remoteServers
        /\ pc' = "Idle"]_vars

\* a save was refused for a console range with end = start while the
\* candidate set differs from the collection of the service
C4_Witness ==
    /\ log = <<"InvalidRange">>
    /\ uiConsoleEndPortSpinBox = uiConsoleStartPortSpinBox
    /\ remote_servers # remoteServers

\* C5: a save with auto_start checked, valid port ranges and a path that is
\* no file shows ServerPathNotFound and does nothing else.
C5_PathNotFoundNoWrites ==
    [][(/\ savePreferences
        /\ uiLocalServerAutoStartCheckBox
        /\ RangesValid
        /\ ~PathIsFile) =>
        /\ log' = <<"ServerPathNotFound">>
        /\ localServerSettings' = localServerSettings
        /\ remoteServers' = remoteServers
        /\ pc' = "Idle"]_vars

\* a save was refused for its path while the candidate set differs from the
\* collection of the service
C5_Witness ==
    /\ log = <<"ServerPathNotFound">>
    /\ uiLocalServerAutoStartCheckBox
    /\ remote_servers # remoteServers

\* C6 as stated: every save with auto_start checked, settings that differ
\* from the persisted ones and a node bound to the local server shows
\* ServerInUse and writes nothing.
C6_Original ==
    [][(/\ savePreferences
        /\ uiLocalServerAutoStartCheckBox
        /\ FormSettings # localServerSettings
        /\ HasLocalNodes) =>
        /\ Occurs("ServerInUse", log')
        /\ NoCalls(log')
        /\ localServerSettings' = localServerSettings
        /\ remoteServers' = remoteServers]_vars

\* C6 (amended): a save with auto_start checked, settings that differ from
\* the persisted ones and a node bound to the local server writes nothing,
\* persists nothing and neither stops nor starts the local server; it is
\* blocked with ServerInUse when the port ranges are valid and the path is a
\* file, and refused by the earlier check that fails otherwise.
C6_ServerInUseNoWrites ==
    [][(/\ savePreferences
        /\ uiLocalServerAutoStartCheckBox
        /\ FormSettings # localServerSettings
        /\ HasLocalNodes) =>
        /\ NoCalls(log')
        /\ localServerSettings' = localServerSettings
        /\ remoteServers' = remoteServers
        /\ pc' = "Idle"
        /\ (RangesValid /\ PathIsFile) =>
               /\ log' # <<>>
               /\ log'[Len(log')] = "ServerInUse"
        /\ ~RangesValid => log' = <<"InvalidRange">>
        /\ (RangesValid /\ ~PathIsFile) => log' = <<"ServerPathNotFound">>]_vars

\* a save was blocked with ServerInUse while the candidate set differs from
\* the collection of the service
C6_Witness ==
    /\ Occurs("ServerInUse", log)
    /\ HasLocalNodes
    /\ uiLocalServerAutoStartCheckBox
    /\ FormSettings # localServerSettings
    /\ DOMAIN remote_servers # DOMAIN remoteServers

StartOnlyWhenChanged ==
    [][(savePreferences /\ Occurs("startLocalServer", log')) =>
        /\ uiLocalServerAutoStartCheckBox
        /\ FormSettings # localServerSettings]_vars

\* C8 as stated: every save with settings identical to the persisted ones
\* writes the settings and does not start the local server; a save starts
\* the local server only with auto_start checked and changed settings.
C8_Original ==
    /\ [][(savePreferences /\ FormSettings = localServerSettings) =>
            /\ Occurs("setLocalServerSettings", log')
            /\ Occurs("save", log')
            /\ ~Occurs("startLocalServer", log')]_vars
    /\ StartOnlyWhenChanged

\* C8 (amended): a save with settings identical to the persisted ones never
\* starts the local server, and writes the settings when its port ranges are
\* valid and, with auto_start checked, its path is a file (otherwise it is
\* refused and writes nothing); a save starts the local server only with
\* auto_start checked and changed settings.
C8_NoRestartWhenUnchanged ==
    /\ [][(savePreferences /\ FormSettings = localServerSettings) =>
            /\ ~Occurs("startLocalServer", log')
            /\ pc' = "Idle"
            /\ (RangesValid /\ (uiLocalServerAutoStartCheckBox => PathIsFile)) =>
                   /\ Occurs("setLocalServerSettings", log')
                   /\ Occurs("updateRemoteServers", log')
                   /\ Occurs("save", log')
            /\ ~(RangesValid /\ (uiLocalServerAutoStartCheckBox => PathIsFile)) =>
                   NoCalls(log')]_vars
    /\ StartOnlyWhenChanged

\* a save with auto_start checked wrote the settings without a restart: the
\* settings were the persisted ones
C8_Witness ==
    /\ uiLocalServerAutoStartCheckBox
    /\ Occurs("save", log)
    /\ ~Occurs("startLocalServer", log)
    /\ ~Occurs("stopLocalServer", log)

\* C9: in the log of a save that restarts the local server the writes and
\* save() come first, then stopLocalServer(wait=True), then startLocalServer,
\* then the connection wait exactly when startLocalServer returned true;
\* when it returned false StartFailed is shown, no wait is begun, and the
\* service keeps the settings of the form.
C9_RestartOrder ==
    Occurs("startLocalServer", log) =>
        /\ Before("setLocalServerSettings", "save", log)
        /\ Before("updateRemoteServers", "save", log)
        /\ Before("save", "stopLocalServer", log)
        /\ Before("stopLocalServer", "startLocalServer", log)
        /\ Occurs("WaitForConnectionWorker", log) <=> Occurs("started", log)
        /\ Occurs("StartFailed", log) <=> Occurs("notStarted", log)
        /\ Occurs("started", log) # Occurs("notStarted", log)
        /\ Occurs("started", log) =>
               Before("startLocalServer", "WaitForConnectionWorker", log)
        /\ Occurs("notStarted", log) =>
               /\ Before("startLocalServer", "StartFailed", log)
               /\ pc = "Idle"
        /\ localServerSettings = FormSettings
        /\ remoteServers = remote_servers

\* the local server did not start after a save that changed the settings
C9_Witness ==
    /\ Occurs("StartFailed", log)
    /\ Occurs("save", log)
    /\ localServerSettings = FormSettings
    /\ pc = "Idle"

\* C10: a save with auto_start unchecked and valid port ranges calls
\* stopLocalServer(wait=True) before setLocalServerSettings, writes and
\* persists, and never calls startLocalServer.
C10_StopBeforeWrite ==
    [][(/\ savePreferences
        /\ ~uiLocalServerAutoStartCheckBox
        /\ RangesValid) =>
        /\ Before("stopLocalServer", "setLocalServerSettings", log')
        /\ Occurs("setLocalServerSettings", log')
        /\ Occurs("save", log')
        /\ ~Occurs("startLocalServer", log')
        /\ pc' = "Idle"]_vars

\* auto_start was on in the service and a save turned it off
C10_Witness ==
    /\ ~uiLocalServerAutoStartCheckBox
    /\ ~localServerSettings.auto_start
    /\ log = <<"stopLocalServer", "setLocalServerSettings", "updateRemoteServers", "save">>
    /\ remoteServers = remote_servers

\* the identifiers carried by the rows of the display list
RowIds ==
    {uiRemoteServersTreeWidget[i].server_id : i \in 1..Len(uiRemoteServersTreeWidget)}

\* C11: in every state reached by load, add and delete, the identifiers of
\* the rows of the display list are the keys of the candidate mapping, one row
\* per key, and the assertion of _remoteServerDeleteSlot has never failed.
C11_DisplayMirrorsCandidates ==
    /\ RowIds = DOMAIN remote_servers
    /\ Len(uiRemoteServersTreeWidget) = Cardinality(DOMAIN remote_servers)
    /\ log # <<"AssertionError">>

\* a row of the loaded collection was deleted while an added row is shown
C11_Witness ==
    /\ \E id \in DOMAIN remote_servers : id \notin ServiceIds
    /\ \E id \in DOMAIN remoteServers : id \notin DOMAIN remote_servers
    /\ \E id \in DOMAIN remoteServers : id \in RowIds
    /\ Len(uiRemoteServersTreeWidget) = Cardinality(ServiceIds)

\* C12: a delete with a row selected removes the record of that row from the
\* candidate set and the row from the display list, every other record and
\* row staying as it was and in the same order (the only candidate deleted,
\* the candidate set is empty); with no row selected the candidate set and the
\* display list stay as they were.
C12_DeleteRemovesSelected ==
    [][remoteServerDeleteSlot =>
        IF currentItem = 0
        THEN /\ remote_servers' = remote_servers
             /\ uiRemoteServersTreeWidget' = uiRemoteServersTreeWidget
        ELSE LET item == uiRemoteServersTreeWidget[currentItem]
             IN  /\ DOMAIN remote_servers' = DOMAIN remote_servers \ {item.server_id}
                 /\ \A id \in DOMAIN remote_servers' :
                        remote_servers'[id] = remote_servers[id]
                 /\ Len(uiRemoteServersTreeWidget') = Len(uiRemoteServersTreeWidget) - 1
                 /\ \A j \in 1..Len(uiRemoteServersTreeWidget') :
                        uiRemoteServersTreeWidget'[j] =
                            uiRemoteServersTreeWidget[IF j < currentItem THEN j ELSE j + 1]
                 /\ Cardinality(DOMAIN remote_servers) = 1 =>
                        DOMAIN remote_servers' = {}]_vars

\* the only candidate, a record added in the panel, was deleted
C12_Witness ==
    /\ DOMAIN remote_servers = {}
    /\ uiRemoteServersTreeWidget = <<>>
    /\ uuidCount >= 1
    /\ remoteServers # <<>>
    /\ log = <<>>

\* C13: after load, whatever adds and deletes came before, the candidate set
\* has exactly the identifiers and the records of the remote server
\* collection of the service, and the display list has one row for each, with
\* the identifier and the settings of the record.
C13_LoadRebuilds ==
    [][loadPreferences =>
        /\ DOMAIN remote_servers' = DOMAIN remoteServers
        /\ \A id \in DOMAIN remoteServers : remote_servers'[id] = remoteServers[id]
        /\ Len(uiRemoteServersTreeWidget') = Cardinality(DOMAIN remoteServers)
        /\ \A id \in DOMAIN remoteServers :
               \E i \in 1..Len(uiRemoteServersTreeWidget') :
                   /\ uiRemoteServersTreeWidget'[i].server_id = id
                   /\ uiRemoteServersTreeWidget'[i].settings = remoteServers[id]]_vars

\* a record was added in the panel, and the candidate set is the collection
\* of the service again, with no row selected
C13_Witness ==
    /\ uuidCount >= 1
    /\ Cardinality(DOMAIN remoteServers) >= 2
    /\ DOMAIN remote_servers = DOMAIN remoteServers
    /\ \A id \in DOMAIN remoteServers : remote_servers[id] = remoteServers[id]
    /\ Len(uiRemoteServersTreeWidget) = Cardinality(DOMAIN remoteServers)
    /\ currentItem = 0
    /\ log = <<>>

\* the path of the form is a file without the execute permission
PathNotExecutable ==
    /\ uiLocalServerPathLineEdit \in Files
    /\ uiLocalServerPathLineEdit \notin Executables

\* C14: a save with auto_start checked, valid port ranges and a path that is
\* a file but not executable shows ServerNotExecutable first and goes on: to
\* ServerInUse and no write when the settings changed and a node is bound to
\* the local server; otherwise to the writes (the new local settings, the
\* candidate set, save), followed by the restart exactly when the settings
\* changed.
C14_NotExecutableDoesNotAbort ==
    [][savePreferences /\ uiLocalServerAutoStartCheckBox /\ RangesValid /\ PathNotExecutable =>
        /\ log' # <<>>
        /\ Head(log') = "ServerNotExecutable"
        /\ IF FormSettings # localServerSettings /\ HasLocalNodes
           THEN /\ log' = <<"ServerNotExecutable", "ServerInUse">>
                /\ UNCHANGED service
           ELSE /\ Before("setLocalServerSettings", "updateRemoteServers", log')
                /\ Before("updateRemoteServers", "save", log')
                /\ Occurs("save", log')
                /\ Occurs("startLocalServer", log') <=> FormSettings # localServerSettings
                /\ Occurs("startLocalServer", log') => Before("save", "stopLocalServer", log')]_vars

\* ServerNotExecutable was shown, and the handler went on to the writes and
\* to the restart of the local server
C14_Witness ==
    /\ log # <<>>
    /\ Head(log) = "ServerNotExecutable"
    /\ Occurs("save", log)
    /\ Occurs("startLocalServer", log)
    /\ uiLocalServerAutoStartCheckBox
    /\ PathNotExecutable

\* the record _remoteServerAddSlot builds from the form
FormRecord ==
    RemoteSettings(lower(uiRemoteServerProtocolComboBox), strip(uiRemoteServerPortLineEdit),
                   uiRemoteServerPortSpinBox, strip(uiRemoteServerUserLineEdit),
                   uiRemoteServerSSHPortSpinBox, strip(uiRemoteServerSSHKeyLineEdit))

\* the step adds the record of the form: nothing is reported, the record is
\* in the candidate set under one identifier, which was not in it before, and
\* the records that were in it are as they were
AddSucceeds ==
    /\ log' = <<>>
    /\ \E id \in DOMAIN remote_servers' :
           /\ id \notin DOMAIN remote_servers
           /\ DOMAIN remote_servers' = DOMAIN remote_servers \cup {id}
           /\ remote_servers'[id] = FormRecord
           /\ \A other \in DOMAIN remote_servers' :
                  remote_servers'[other] = FormRecord => other = id
    /\ \A id \in DOMAIN remote_servers : remote_servers'[id] = remote_servers[id]

\* C15 as stated: every add with a protocol other than ssh, a host that
\* matches the pattern and a port >= 1 succeeds, the record being in the
\* candidate set once, under a fresh identifier, the others unchanged.
C15_Original ==
    [][remoteServerAddSlot /\ uiRemoteServerProtocolComboBox # "SSH" /\ FormValid =>
        AddSucceeds]_vars

\* C15 (amended): every add with a protocol other than ssh, a host that
\* matches the pattern, a port >= 1 and a (protocol, host, port, user) that no
\* record of the candidate set has succeeds, the record being in the
\* candidate set once, under a fresh identifier, the others unchanged; when a
\* record has that (protocol, host, port, user) the add is refused with
\* DuplicateServer and the candidate set stays as it was.
C15_NonSSHAddSucceeds ==
    [][remoteServerAddSlot /\ uiRemoteServerProtocolComboBox # "SSH" /\ FormValid =>
        IF FormKeyExists
        THEN /\ log' = <<"DuplicateServer">>
             /\ remote_servers' = remote_servers
        ELSE AddSucceeds]_vars

\* an http record added in the panel stands beside a record loaded from the
\* service
C15_Witness ==
    /\ log = <<>>
    /\ \E id \in DOMAIN remote_servers :
           /\ id \in DOMAIN remoteServers
           /\ remote_servers[id] = remoteServers[id]
    /\ \E id \in DOMAIN remote_servers :
           /\ id \notin ServiceIds
           /\ remote_servers[id].protocol = "http"
           /\ remote_servers[id].user = <<>>

\* the port of the record is >= 1, its host is one or more characters of the
\* pattern, and with the protocol ssh its user and its key are not empty
WellFormed(server) ==
    /\ server.port >= 1
    /\ server.host # <<>>
    /\ \A i \in 1..Len(server.host) : server.host[i] \in HostClass
    /\ server.protocol = "ssh" =>
           /\ server.user # <<>>
           /\ server.ssh_key # <<>>

\* C16: in every reachable state, every record of the candidate set that
\* was added in the panel (its identifier is none of those of the service)
\* has a port >= 1, a host matching the pattern and, when its protocol is
\* ssh, a user and an ssh_key that are not empty.
C16_AddedRecordsWellFormed ==
    \A id \in DOMAIN remote_servers : id \notin ServiceIds => WellFormed(remote_servers[id])

\* an ssh record added in the panel is in the candidate set
C16_Witness ==
    \E id \in DOMAIN remote_servers :
        /\ id \notin ServiceIds
        /\ remote_servers[id].protocol = "ssh"
        /\ WellFormed(remote_servers[id])

\* Persisting: the three writes were made, in order
Persisted(events) ==
    /\ Occurs("save", events)
    /\ Before("setLocalServerSettings", "updateRemoteServers", events)
    /\ Before("updateRemoteServers", "save", events)

\* RestartingServer, after Persisting: the local server was stopped and
\* started after the writes
Restarted(events) ==
    /\ Persisted(events)
    /\ Occurs("startLocalServer", events)
    /\ Before("save", "startLocalServer", events)
    /\ \E i \in 1..Len(events) :
           /\ events[i] = "stopLocalServer"
           /\ \E j \in 1..Len(events) : events[j] = "save" /\ j < i
           /\ \E j \in 1..Len(events) : events[j] = "startLocalServer" /\ i < j

\* the last thing the handler showed or called
Last(events) == events[Len(events)]

\* Validating -> Idle: a check failed, nothing was called
EndsInvalid ==
    /\ log' # <<>>
    /\ Last(log') \in {"InvalidRange", "ServerPathNotFound"}
    /\ NoCalls(log')
    /\ pc' = "Idle"

\* Validating -> Blocked: ServerInUse was shown, nothing was called
EndsBlocked ==
    /\ log' # <<>>
    /\ Last(log') = "ServerInUse"
    /\ NoCalls(log')
    /\ pc' = "Idle"

\* Validating -> Persisting -> Idle
EndsPersisted ==
    /\ Persisted(log')
    /\ Last(log') = "save"
    /\ ~Occurs("startLocalServer", log')
    /\ ~Occurs("ServerInUse", log')
    /\ pc' = "Idle"

\* Validating -> Persisting -> RestartingServer -> AwaitingConnection
EndsAwaiting ==
    /\ Restarted(log')
    /\ Last(log') = "WaitForConnectionWorker"
    /\ Before("startLocalServer", "WaitForConnectionWorker", log')
    /\ ~Occurs("ServerInUse", log')
    /\ pc' = "AwaitingConnection"

\* Validating -> Persisting -> RestartingServer -> Idle: the local server
\* did not start
EndsStartFailed ==
    /\ Restarted(log')
    /\ Last(log') = "StartFailed"
    /\ ~Occurs("WaitForConnectionWorker", log')
    /\ ~Occurs("ServerInUse", log')
    /\ pc' = "Idle"

\* AwaitingConnection is entered after Persisting and RestartingServer only,
\* and is left for Idle
AwaitingAfterRestart ==
    /\ [](pc = "AwaitingConnection" => Restarted(log))
    /\ [][pc = "AwaitingConnection" => pc' = "Idle"]_vars

\* C17 as stated: every save starts in Idle and either ends after validating
\* (a failed check, or ServerInUse) or makes the writes and then either
\* returns or restarts the local server and waits for the connection;
\* AwaitingConnection is entered after the writes and the restart only; and
\* the connection wait ending (connected, failed or cancelled), every save
\* ends in Idle or Blocked.
C17_Original ==
    /\ [][savePreferences =>
            /\ pc = "Idle"
            /\ EndsInvalid \/ EndsBlocked \/ EndsPersisted \/ EndsAwaiting]_vars
    /\ AwaitingAfterRestart
    /\ (pc = "AwaitingConnection") ~> (pc = "Idle")

\* C17 (amended): as stated, with one more path: when the local server does
\* not start, the save shows StartFailed after the writes and the restart and
\* ends in Idle without waiting for a connection.
C17_SaveStateMachine ==
    /\ [][savePreferences =>
            /\ pc = "Idle"
            /\ EndsInvalid \/ EndsBlocked \/ EndsPersisted \/ EndsAwaiting
                   \/ EndsStartFailed]_vars
    /\ AwaitingAfterRestart
    /\ (pc = "AwaitingConnection") ~> (pc = "Idle")

\* the connection wait of a save with a restart has ended
C17_Witness ==
    /\ pc = "Idle"
    /\ Restarted(log)
    /\ Occurs("WaitForConnectionWorker", log)
    /\ Last(log) \in {"connected", "failed", "cancelled"}

\* C18: no two records of the candidate set whose protocol is not ssh have
\* the same (protocol, host, port), whatever the protocol selections, row
\* selections and adds: the text left in the hidden user field lets no second
\* such record in.
C18_HiddenUserUnique ==
    \A id1, id2 \in DOMAIN remote_servers :
        /\ id1 # id2
        /\ remote_servers[id1].protocol # "ssh"
        /\ remote_servers[id2].protocol # "ssh"
        => <<remote_servers[id1].protocol, remote_servers[id1].host, remote_servers[id1].port>>
               # <<remote_servers[id2].protocol, remote_servers[id2].host, remote_servers[id2].port>>

\* C19: a save with auto_start unchecked and valid port ranges shows no
\* error and is not blocked, whatever the path and the topology: it stops the
\* local server, then writes the local settings and the candidate set and
\* saves, and does not restart.
C19_AutoStartOffNeverRejected ==
    [][savePreferences /\ ~uiLocalServerAutoStartCheckBox /\ RangesValid =>
        /\ log' = <<"stopLocalServer", "setLocalServerSettings", "updateRemoteServers", "save">>
        /\ pc' = "Idle"]_vars

\* such a save was made with a path that is no file and a node bound to the
\* local server
C19_Witness ==
    /\ ~uiLocalServerAutoStartCheckBox
    /\ RangesValid
    /\ ~PathIsFile
    /\ HasLocalNodes
    /\ Occurs("save", log)
    /\ Before("stopLocalServer", "setLocalServerSettings", log)
    /\ ~Occurs("startLocalServer", log)

====
